---- MODULE Spec2Model ----
(***************************************************************************)
(* Model of the multi-agent healthcare workflow coordinator                *)
(* (agentic_rag/agents/coordinator_agent.py, execute_multi_agent_workflow) *)
(* and of the connected-agents query handler                               *)
(* (agentic_rag/app_connected.py, process_healthcare_query), together with *)
(* the remote agent service they talk to: threads, prompts and runs; and   *)
(* of clean_content, the content normalizer of agentic_rag/app.py.         *)
(***************************************************************************)
EXTENDS Integers, Sequences, FiniteSets, TLC

(***************************************************************************)
(* Bounds of the model.                                                    *)
(***************************************************************************)
\* how often, during one call, remote runs may enter "requires_action"
MaxToolRounds == 1

\* calls of an entry point made by one process
MaxCalls == 2

\* parts of the longest list handed to clean_content
MaxLen == 2

\* documents a vector search may find
MaxDocs == 2

(***************************************************************************)
(* Vocabulary taken from the source.                                       *)
(***************************************************************************)
\* the three stages of execute_multi_agent_workflow, in program order
Stages == {"research", "analysis", "synthesis"}

\* owners of remote threads and runs: the three stages and the single thread
\* of process_healthcare_query
Owners == Stages \cup {"connected"}

\* run statuses the code names
RunStatuses == {"queued", "in_progress", "requires_action", "completed", "failed"}

\* statuses on which execute_multi_agent_workflow keeps polling
PollStatusesStuck == {"queued", "in_progress", "requires_action", "completed"}
PollStatusesShort == {"queued", "requires_action"}
PollStatuses == {"queued", "in_progress", "requires_action"}

\* statuses on which process_healthcare_query keeps polling
ConnectedPollStatuses == {"queued", "in_progress"}

\* statuses a remote run never leaves
TerminalStatuses == {"completed", "failed"}

\* failure reasons the service may report in run.last_error
LastErrors == {"index unavailable", "rate_limit_exceeded"}

\* what messages.list can show of the assistant: no assistant message, an
\* assistant message with empty content, an assistant message with text
Replies == {"none", "empty", "text"}

\* queries handed to the entry points (empty, blank, ordinary)
Queries == {"", "  ", "diabetes"}

\* str.strip() on the modelled queries
Strip(q) == IF q = "  " THEN "" ELSE q

VARIABLES
    op,                 \* the entry point being executed
    faults,             \* whether calls to the remote service may raise
    user_query,         \* its query argument
    progress_callback,  \* the progress_callback keyword argument, if any
    calls,              \* calls of the entry point made by this process
    content,            \* the argument of clean_content
    cleaned,            \* what clean_content returned
    env_valid,          \* whether the required environment variables are set
    workflow_history,   \* GradioAgenticRAGInterface.workflow_history
    failing,            \* the steps of RAGEngine.query that fail in this call
    search_results,     \* how many documents the vector search finds
    rag_result,         \* what RAGEngine.query returned
    documents,          \* add_documents: how many documents it is given
    embeddings,         \* add_documents: the length of each embedding given
    vector_size,        \* the argument of _ensure_collection
    collection,         \* the Qdrant collection: existence, vector size, points
    collection_before,  \* the collection as it was when the call began
    pc,                 \* position in the entry point's code
    stage,              \* the stage whose try block is executing
    workflow_results,   \* the dictionary built by execute_multi_agent_workflow
    response,           \* the value returned by process_healthcare_query
    response_content,   \* its local variable of that name
    run,                \* the client's copy of each run's status
    provisionAttempts,  \* calls of create_<...>_agent, per owner
    agents,             \* remote agents created, per owner
    thread,             \* remote threads: "none", "open" or "deleted"
    deletes,            \* successful threads.delete calls, per owner
    prompt,             \* the prompt submitted to each owner's thread
    job,                \* remote status of each owner's run
    last_error,         \* the failure reason the service reports for a run
    toolRounds          \* times a remote run entered "requires_action"

\* the state of the other programs of the repository: the Gradio interface's
\* history, the RAG engine and the Qdrant vector store
appVars == <<env_valid, workflow_history, failing, search_results, rag_result,
             documents, embeddings, vector_size, collection, collection_before>>

\* what no step of an entry point or of the remote service changes
fixedVars == <<op, faults, user_query, progress_callback, calls, content, cleaned,
               appVars>>

vars == <<fixedVars, pc, stage, workflow_results, response, response_content, run,
          provisionAttempts, agents, thread, deletes, prompt, job, last_error,
          toolRounds>>

remoteVars == <<agents, thread, deletes, prompt, job, last_error, toolRounds>>

\* a key the dictionary (or the prompt) does not hold
Absent == "<absent>"

\* no prompt submitted yet
NoPrompt == [query |-> Absent, research |-> Absent, analysis |-> Absent]

\* workflow_results = {}
NoResults == [k \in {} |-> Absent]

\* ConnectedHealthcareInterface.__init__ has provisioned the connected agent
\* before any query is processed; the coordinator provisions nothing up front
Constructed(o) == IF o = "connected" /\ op = "process_healthcare_query" THEN 1 ELSE 0

\* the state in which a call of one of the entry points ops begins, made with
\* one of the keyword arguments callbacks and, for clean_content, one of the
\* arguments contents
Setup(ops, callbacks, contents) ==
    /\ op \in ops
    /\ faults \in BOOLEAN
    /\ user_query \in Queries
    /\ progress_callback \in callbacks
    /\ calls = 1
    /\ content \in contents
    /\ cleaned = Absent
    /\ pc = "start"
    /\ stage = "none"
    /\ workflow_results = NoResults
    /\ response = "none"
    /\ response_content = ""
    /\ run = [o \in Owners |-> "none"]
    /\ provisionAttempts = [o \in Owners |-> Constructed(o)]
    /\ agents = [o \in Owners |-> Constructed(o)]
    /\ thread = [o \in Owners |-> "none"]
    /\ deletes = [o \in Owners |-> 0]
    /\ prompt = [o \in Owners |-> NoPrompt]
    /\ job = [o \in Owners |-> "none"]
    /\ last_error = [o \in Owners |-> Absent]
    /\ toolRounds = 0

\* no collection in Qdrant
NoCollection == [exists |-> FALSE, size |-> 0, points |-> 0]

\* the Gradio interface after construction: self.workflow_history = []
HistoryIdle ==
    /\ env_valid = TRUE
    /\ workflow_history = <<>>

\* no call of RAGEngine.query
RagIdle ==
    /\ failing = {}
    /\ search_results = 0
    /\ rag_result = Absent

\* no call of the vector store
StoreIdle ==
    /\ documents = 0
    /\ embeddings = <<>>
    /\ vector_size = 0
    /\ collection = NoCollection
    /\ collection_before = NoCollection

\* a first call of the coordinator or of the connected handler, as their
\* signatures allow it
Init ==
    /\ Setup({"execute_multi_agent_workflow", "process_healthcare_query"},
             {Absent}, {Absent})
    /\ HistoryIdle /\ RagIdle /\ StoreIdle

(***************************************************************************)
(* Helpers of execute_multi_agent_workflow.                                *)
(***************************************************************************)
\* the stage after s, in program order
NextStage(s) ==
    CASE s = "research" -> "analysis"
      [] s = "analysis" -> "synthesis"
      [] OTHER -> "none"

\* where control goes when the try block of stage s is left
AfterStage(s) == IF s = "synthesis" THEN "summary" ELSE "create_agent"

\* workflow_results[s] = v
Record(s, v) == (s :> v) @@ workflow_results

\* workflow_results.get(s, {}).get('content', default)
ContentOr(s, default) ==
    IF s \in DOMAIN workflow_results /\ workflow_results[s].content # Absent
    THEN workflow_results[s].content
    ELSE default

\* research_query, analysis_query, synthesis_query: what each prompt embeds
PromptFor(s) ==
    CASE s = "research" ->
            [query |-> user_query, research |-> Absent, analysis |-> Absent]
      [] s = "analysis" ->
            [query |-> user_query,
             research |-> ContentOr("research", "No research data available"),
             analysis |-> Absent]
      [] OTHER ->
            [query |-> user_query,
             research |-> ContentOr("research", "No research data available"),
             analysis |-> ContentOr("analysis", "No analysis data available")]

\* the content extracted from the last assistant message
ExtractContent(s, reply) ==
    CASE reply = "text" -> s \o " text"
      [] s = "research" -> "No research results"
      [] s = "synthesis" -> "No synthesis results"
      [] OTHER -> ""

\* <stage>_agent.id: the identity of the n-th agent created for owner o
AgentId(o, n) == o \o "_agent_" \o ToString(n)

\* the dictionary stored for a stage whose try block reached its end
StageResultCompleted(s, reply) ==
    [status |-> "completed", content |-> ExtractContent(s, reply),
     agent_id |-> AgentId(s, agents[s]), error |-> Absent]
StageResult(s, reply) ==
    [status |-> run[s], content |-> ExtractContent(s, reply),
     agent_id |-> AgentId(s, agents[s]), error |-> Absent]

\* except Exception as e: workflow_results[s] = {"status": "failed", "error": str(e)}
ExceptPropagates(s, err) ==
    /\ workflow_results' = workflow_results
    /\ pc' = "raised"
    /\ stage' = s
ExceptDropsResult(s, err) ==
    /\ workflow_results' = workflow_results
    /\ pc' = AfterStage(s)
    /\ stage' = NextStage(s)
ExceptShortCircuit(s, err) ==
    /\ workflow_results' =
          [k \in (DOMAIN workflow_results) \cup {t \in Stages : s = "research"} \cup {s} |->
              IF k = s THEN [status |-> "failed", content |-> Absent,
                             agent_id |-> Absent, error |-> err]
              ELSE IF k \in DOMAIN workflow_results THEN workflow_results[k]
              ELSE [status |-> "skipped", content |-> Absent,
                    agent_id |-> Absent, error |-> Absent]]
    /\ pc' = IF s = "research" THEN "summary" ELSE AfterStage(s)
    /\ stage' = IF s = "research" THEN "none" ELSE NextStage(s)
ExceptAbortsRest(s, err) ==
    /\ workflow_results' =
          [k \in (DOMAIN workflow_results) \cup {s, "synthesis"} |->
              IF k = s \/ k \notin DOMAIN workflow_results
              THEN [status |-> "failed", content |-> Absent,
                    agent_id |-> Absent, error |-> err]
              ELSE workflow_results[k]]
    /\ pc' = "summary"
    /\ stage' = "none"
Except(s, err) ==
    /\ workflow_results' =
          Record(s, [status |-> "failed", content |-> Absent,
                     agent_id |-> Absent, error |-> err])
    /\ pc' = AfterStage(s)
    /\ stage' = NextStage(s)

\* the summary entry computed from the stage entries
SummaryFailsOnResearch(results) ==
    LET successful_agents ==
            Cardinality({k \in DOMAIN results : results[k].status = "completed"})
        total_agents == Cardinality(DOMAIN results)
    IN  [query |-> user_query,
         successful_agents |-> successful_agents,
         total_agents |-> total_agents,
         workflow_status |->
            IF successful_agents = total_agents THEN "completed"
            ELSE IF results["research"].status = "failed" THEN "failed"
            ELSE "partial"]
SummaryAnySuccess(results) ==
    LET successful_agents ==
            Cardinality({k \in DOMAIN results : results[k].status = "completed"})
        total_agents == Cardinality(DOMAIN results)
    IN  [query |-> user_query,
         successful_agents |-> successful_agents,
         total_agents |-> total_agents,
         workflow_status |->
            IF successful_agents > 0 THEN "completed" ELSE "partial"]
SummaryCountsItself(results) ==
    LET successful_agents ==
            Cardinality({k \in DOMAIN results : results[k].status = "completed"})
        total_agents == Cardinality(DOMAIN results) + 1
    IN  [query |-> user_query,
         successful_agents |-> successful_agents,
         total_agents |-> total_agents,
         workflow_status |->
            IF successful_agents = total_agents THEN "completed" ELSE "partial"]

Summary(results) ==
    LET successful_agents ==
            Cardinality({k \in DOMAIN results : results[k].status = "completed"})
        total_agents == Cardinality(DOMAIN results)
    IN  [query |-> user_query,
         successful_agents |-> successful_agents,
         total_agents |-> total_agents,
         workflow_status |->
            IF successful_agents = total_agents THEN "completed" ELSE "partial"]

\* run.last_error of a run in status st: set once the run has failed
ReasonOf(st, e) == IF st = "failed" THEN e ELSE Absent

\* f"Research Agent failed: {research_run.last_error}" and its two siblings
AgentFailedMessage(s, e) ==
    (CASE s = "research" -> "Research"
       [] s = "analysis" -> "Analysis"
       [] OTHER -> "Synthesis") \o " Agent failed: " \o e

\* a remote call raises: possible only when the service is faulty
RemoteError(s) == faults /\ Except(s, "remote_error")

InWorkflow == op = "execute_multi_agent_workflow"

(***************************************************************************)
(* execute_multi_agent_workflow, one action per remote call.  Every remote *)
(* call either returns or raises; a raise runs the stage's except clause.  *)
(***************************************************************************)
\* the call binds its arguments to def execute_multi_agent_workflow(user_query)
\* (a keyword the signature does not name is a TypeError raised to the
\* caller); then workflow_results = {} and entry into the research try block
Start ==
    /\ InWorkflow /\ pc = "start"
    /\ IF progress_callback # Absent
       THEN /\ pc' = "raised"
            /\ UNCHANGED <<stage, workflow_results>>
       ELSE /\ pc' = "create_agent"
            /\ stage' = "research"
            /\ workflow_results' = NoResults
    /\ UNCHANGED <<fixedVars, response, response_content, run, provisionAttempts,
                   remoteVars>>

\* create_research_agent() / create_analysis_agent() / create_synthesis_agent()
CreateAgentCached ==
    /\ InWorkflow /\ pc = "create_agent"
    /\ IF agents[stage] > 0
       THEN /\ pc' = "create_thread"
            /\ UNCHANGED <<provisionAttempts, agents, stage, workflow_results>>
       ELSE /\ provisionAttempts' = [provisionAttempts EXCEPT ![stage] = @ + 1]
            /\ \/ /\ agents' = [agents EXCEPT ![stage] = @ + 1]
                  /\ pc' = "create_thread"
                  /\ UNCHANGED <<stage, workflow_results>>
               \/ /\ UNCHANGED agents
                  /\ RemoteError(stage)
    /\ UNCHANGED <<fixedVars, response, response_content, run, thread, deletes, prompt,
                   job, last_error, toolRounds>>

CreateAgent ==
    /\ InWorkflow /\ pc = "create_agent"
    /\ provisionAttempts' = [provisionAttempts EXCEPT ![stage] = @ + 1]
    /\ \/ /\ agents' = [agents EXCEPT ![stage] = @ + 1]
          /\ pc' = "create_thread"
          /\ UNCHANGED <<stage, workflow_results>>
       \/ /\ UNCHANGED agents
          /\ RemoteError(stage)
    /\ UNCHANGED <<fixedVars, response, response_content, run, thread, deletes, prompt,
                   job, last_error, toolRounds>>

\* project_client.agents.threads.create()
CreateThread ==
    /\ InWorkflow /\ pc = "create_thread"
    /\ \/ /\ thread' = [thread EXCEPT ![stage] = "open"]
          /\ pc' = "send_message"
          /\ UNCHANGED <<stage, workflow_results>>
       \/ /\ UNCHANGED thread
          /\ RemoteError(stage)
    /\ UNCHANGED <<fixedVars, response, response_content, run, provisionAttempts,
                   agents, deletes, prompt, job, last_error, toolRounds>>

\* project_client.agents.messages.create(thread_id, role=USER, content=<stage>_query)
SendMessage ==
    /\ InWorkflow /\ pc = "send_message"
    /\ \/ /\ prompt' = [prompt EXCEPT ![stage] = PromptFor(stage)]
          /\ pc' = "create_run"
          /\ UNCHANGED <<stage, workflow_results>>
       \/ /\ UNCHANGED prompt
          /\ RemoteError(stage)
    /\ UNCHANGED <<fixedVars, response, response_content, run, provisionAttempts,
                   agents, thread, deletes, job, last_error, toolRounds>>

\* project_client.agents.runs.create_and_process(thread_id, agent_id)
CreateAndProcess ==
    /\ InWorkflow /\ pc = "create_run"
    /\ \/ \E st \in RunStatuses, e \in LastErrors :
             /\ job' = [job EXCEPT ![stage] = st]
             /\ last_error' = [last_error EXCEPT ![stage] = ReasonOf(st, e)]
             /\ run' = [run EXCEPT ![stage] = st]
             /\ pc' = "poll"
             /\ UNCHANGED <<stage, workflow_results>>
       \/ \E st \in {"none", "queued", "in_progress"} :
             /\ job' = [job EXCEPT ![stage] = st]
             /\ UNCHANGED last_error
             /\ UNCHANGED run
             /\ RemoteError(stage)
    /\ UNCHANGED <<fixedVars, response, response_content, provisionAttempts, agents,
                   thread, deletes, prompt, toolRounds>>

\* body of: while <stage>_run.status in ["queued", "in_progress", "requires_action"]
Retrieve ==
    /\ InWorkflow /\ pc = "poll"
    /\ run[stage] \in PollStatuses
    /\ \/ /\ run' = [run EXCEPT ![stage] = job[stage]]
          /\ IF job[stage] = "failed"
             THEN Except(stage, AgentFailedMessage(stage, last_error[stage]))
             ELSE UNCHANGED <<pc, stage, workflow_results>>
       \/ /\ UNCHANGED run
          /\ RemoteError(stage)
    /\ UNCHANGED <<fixedVars, response, response_content, provisionAttempts, remoteVars>>

\* after the loop: messages.list, the last assistant message, the content
\* extraction and workflow_results[<stage>] = {...}
ListMessages ==
    /\ InWorkflow /\ pc = "poll"
    /\ run[stage] \notin PollStatuses
    /\ \/ \E reply \in Replies :
             IF reply = "none"
             THEN Except(stage, "index_error")
             ELSE /\ workflow_results' = Record(stage, StageResult(stage, reply))
                  /\ pc' = "delete_thread"
                  /\ UNCHANGED stage
       \/ RemoteError(stage)
    /\ UNCHANGED <<fixedVars, response, response_content, run, provisionAttempts,
                   remoteVars>>

\* project_client.agents.threads.delete(<stage>_thread.id)
DeleteThread ==
    /\ InWorkflow /\ pc = "delete_thread"
    /\ \/ /\ thread' = [thread EXCEPT ![stage] = "deleted"]
          /\ deletes' = [deletes EXCEPT ![stage] = @ + 1]
          /\ pc' = AfterStage(stage)
          /\ stage' = NextStage(stage)
          /\ UNCHANGED workflow_results
       \/ /\ UNCHANGED <<thread, deletes>>
          /\ RemoteError(stage)
    /\ UNCHANGED <<fixedVars, response, response_content, run, provisionAttempts,
                   agents, prompt, job, last_error, toolRounds>>

\* Step 4: the summary entry, and the return
WorkflowSummary ==
    /\ InWorkflow /\ pc = "summary"
    /\ workflow_results' = ("summary" :> Summary(workflow_results)) @@ workflow_results
    /\ pc' = "done"
    /\ UNCHANGED <<fixedVars, stage, response, response_content, run,
                   provisionAttempts, remoteVars>>

(***************************************************************************)
(* The remote service: a run advances on its own until it is terminal.     *)
(***************************************************************************)
RemoteStep(o) ==
    /\ job[o] \in RunStatuses \ TerminalStatuses
    /\ \/ /\ job[o] \in {"queued", "requires_action"}
          /\ job' = [job EXCEPT ![o] = "in_progress"]
          /\ UNCHANGED <<toolRounds, last_error>>
       \/ /\ job[o] = "in_progress"
          /\ \E st \in TerminalStatuses, e \in LastErrors :
                /\ job' = [job EXCEPT ![o] = st]
                /\ last_error' = [last_error EXCEPT ![o] = ReasonOf(st, e)]
          /\ UNCHANGED toolRounds
       \/ /\ job[o] = "in_progress"
          /\ toolRounds < MaxToolRounds
          /\ job' = [job EXCEPT ![o] = "requires_action"]
          /\ toolRounds' = toolRounds + 1
          /\ UNCHANGED last_error
    /\ UNCHANGED <<fixedVars, pc, stage, workflow_results, response, response_content,
                   run, provisionAttempts, agents, thread, deletes, prompt>>

Remote == \E o \in Owners : RemoteStep(o)

(***************************************************************************)
(* process_healthcare_query of ConnectedHealthcareInterface.               *)
(***************************************************************************)
InConnected == op = "process_healthcare_query"

\* the text built from the last assistant message, before .strip()
ConnectedContent(reply) == IF reply = "text" THEN "connected text" ELSE "[]"

\* except Exception as e: return f"Error processing query: {str(e)}"
ConnectedExcept ==
    /\ response' = "Error processing query"
    /\ pc' = "done"

\* a remote call of process_healthcare_query raises
ConnectedRemoteError == faults /\ ConnectedExcept

\* if not query.strip(): return "Please enter a healthcare question."
ConnectedStartUnstripped ==
    /\ InConnected /\ pc = "start"
    /\ IF user_query = ""
       THEN /\ response' = "Please enter a healthcare question."
            /\ pc' = "done"
       ELSE /\ pc' = "c_create_thread"
            /\ UNCHANGED response
    /\ UNCHANGED <<fixedVars, stage, workflow_results, response_content, run,
                   provisionAttempts, remoteVars>>

ConnectedStart ==
    /\ InConnected /\ pc = "start"
    /\ IF Strip(user_query) = ""
       THEN /\ response' = "Please enter a healthcare question."
            /\ pc' = "done"
       ELSE /\ pc' = "c_create_thread"
            /\ UNCHANGED response
    /\ UNCHANGED <<fixedVars, stage, workflow_results, response_content, run,
                   provisionAttempts, remoteVars>>

\* thread = project_client.agents.threads.create()
ConnectedCreateThread ==
    /\ InConnected /\ pc = "c_create_thread"
    /\ \/ /\ thread' = [thread EXCEPT !["connected"] = "open"]
          /\ pc' = "c_send_message"
          /\ UNCHANGED response
       \/ /\ UNCHANGED thread
          /\ ConnectedRemoteError
    /\ UNCHANGED <<fixedVars, stage, workflow_results, response_content, run,
                   provisionAttempts, agents, deletes, prompt, job, last_error,
                   toolRounds>>

\* project_client.agents.messages.create(thread_id, role=USER, content=query)
ConnectedSendMessage ==
    /\ InConnected /\ pc = "c_send_message"
    /\ \/ /\ prompt' = [prompt EXCEPT !["connected"] =
                           [query |-> user_query, research |-> Absent, analysis |-> Absent]]
          /\ pc' = "c_create_run"
          /\ UNCHANGED response
       \/ /\ UNCHANGED prompt
          /\ ConnectedRemoteError
    /\ UNCHANGED <<fixedVars, stage, workflow_results, response_content, run,
                   provisionAttempts, agents, thread, deletes, job, last_error,
                   toolRounds>>

\* run = project_client.agents.runs.create_and_process(thread_id, agent_id)
ConnectedCreateAndProcess ==
    /\ InConnected /\ pc = "c_create_run"
    /\ \/ \E st \in RunStatuses, e \in LastErrors :
             /\ job' = [job EXCEPT !["connected"] = st]
             /\ last_error' = [last_error EXCEPT !["connected"] = ReasonOf(st, e)]
             /\ run' = [run EXCEPT !["connected"] = st]
             /\ pc' = "c_poll"
             /\ UNCHANGED response
       \/ \E st \in {"none", "queued", "in_progress"} :
             /\ job' = [job EXCEPT !["connected"] = st]
             /\ UNCHANGED last_error
             /\ UNCHANGED run
             /\ ConnectedRemoteError
    /\ UNCHANGED <<fixedVars, stage, workflow_results, response_content,
                   provisionAttempts, agents, thread, deletes, prompt, toolRounds>>

\* body of: while run.status in ["queued", "in_progress"]
ConnectedRetrieve ==
    /\ InConnected /\ pc = "c_poll"
    /\ run["connected"] \in ConnectedPollStatuses
    /\ \/ /\ run' = [run EXCEPT !["connected"] = job["connected"]]
          /\ UNCHANGED <<pc, response>>
       \/ /\ UNCHANGED run
          /\ ConnectedRemoteError
    /\ UNCHANGED <<fixedVars, stage, workflow_results, response_content,
                   provisionAttempts, remoteVars>>

\* after the loop: if run.status == "completed", list the messages and build
\* the response content; otherwise return the failure message
ConnectedListMessages ==
    /\ InConnected /\ pc = "c_poll"
    /\ run["connected"] \notin ConnectedPollStatuses
    /\ IF run["connected"] = "completed"
       THEN \/ \E reply \in Replies :
                 IF reply = "none"
                 THEN /\ response' = "No response received from the connected agents."
                      /\ pc' = "done"
                      /\ UNCHANGED response_content
                 ELSE /\ response_content' = ConnectedContent(reply)
                      /\ pc' = "c_delete_thread"
                      /\ UNCHANGED response
            \/ /\ ConnectedRemoteError
               /\ UNCHANGED response_content
       ELSE /\ response' = "Connected agent workflow failed"
            /\ pc' = "done"
            /\ UNCHANGED response_content
    /\ UNCHANGED <<fixedVars, stage, workflow_results, run, provisionAttempts,
                   remoteVars>>

\* project_client.agents.threads.delete(thread.id); return response_content.strip()
ConnectedDeleteThread ==
    /\ InConnected /\ pc = "c_delete_thread"
    /\ \/ /\ thread' = [thread EXCEPT !["connected"] = "deleted"]
          /\ deletes' = [deletes EXCEPT !["connected"] = @ + 1]
          /\ response' = response_content
          /\ pc' = "done"
       \/ /\ UNCHANGED <<thread, deletes>>
          /\ ConnectedRemoteError
    /\ UNCHANGED <<fixedVars, stage, workflow_results, response_content, run,
                   provisionAttempts, agents, prompt, job, last_error, toolRounds>>

Connected ==
    \/ ConnectedStart
    \/ ConnectedCreateThread
    \/ ConnectedSendMessage
    \/ ConnectedCreateAndProcess
    \/ ConnectedRetrieve
    \/ ConnectedListMessages
    \/ ConnectedDeleteThread

Workflow ==
    \/ Start
    \/ CreateAgent
    \/ CreateThread
    \/ SendMessage
    \/ CreateAndProcess
    \/ Retrieve
    \/ ListMessages
    \/ DeleteThread
    \/ WorkflowSummary

Next == Workflow \/ Connected \/ Remote

Spec == Init /\ [][Next]_vars

\* the entry points run to their return and the remote service keeps working
LiveSpec ==
    /\ Spec
    /\ WF_vars(Workflow)
    /\ WF_vars(Connected)
    /\ \A o \in Owners : WF_vars(RemoteStep(o))

(***************************************************************************)
(* The coordinator called the way tests/test_coordinator.py calls it: with *)
(* or without the keyword argument progress_callback.                      *)
(***************************************************************************)
CallbackInit ==
    /\ Setup({"execute_multi_agent_workflow"}, {Absent, "progress_callback"}, {Absent})
    /\ HistoryIdle /\ RagIdle /\ StoreIdle

CallbackNext == Workflow \/ Remote

CallbackSpec == CallbackInit /\ [][CallbackNext]_vars

(***************************************************************************)
(* A process that calls its entry point again after it returned.  The      *)
(* threads, runs and results of a call are local to it; the agents created *)
(* stay with the remote service.                                           *)
(***************************************************************************)
NewCall ==
    /\ pc = "done"
    /\ calls < MaxCalls
    /\ calls' = calls + 1
    /\ user_query' \in Queries
    /\ pc' = "start"
    /\ stage' = "none"
    /\ workflow_results' = NoResults
    /\ response' = "none"
    /\ response_content' = ""
    /\ run' = [o \in Owners |-> "none"]
    /\ thread' = [o \in Owners |-> "none"]
    /\ deletes' = [o \in Owners |-> 0]
    /\ prompt' = [o \in Owners |-> NoPrompt]
    /\ job' = [o \in Owners |-> "none"]
    /\ last_error' = [o \in Owners |-> Absent]
    /\ toolRounds' = 0
    /\ UNCHANGED <<op, faults, progress_callback, content, cleaned, appVars,
                   provisionAttempts, agents>>

RegistryNext == Next \/ NewCall

\* the remote service works: every call provisions what it asks for
RegistryInit == Init /\ ~faults

RegistrySpec == RegistryInit /\ [][RegistryNext]_vars


(***************************************************************************)
(* clean_content of execute_healthcare_workflow (app.py): the values it is *)
(* given.  A Python value is a record named after its type: [str |-> its   *)
(* text], [int |-> its digits], [list |-> its items], [none |-> "None"];   *)
(* a dict is the record of the four fields clean_content looks up.         *)
(***************************************************************************)
Str(s) == [str |-> s]
Num(s) == [int |-> s]
None == [none |-> "None"]
List(items) == [list |-> items]

\* a key the dict does not hold
Missing == [missing |-> ""]

\* the keys clean_content looks up, in the order the dict literal names them
Keys == <<"text", "value", "content", "message">>

Dict(text, value, content_, message) ==
    [text |-> text, value |-> value, content |-> content_, message |-> message]

\* type(x).__name__
TypeOf(x) ==
    CASE "str" \in DOMAIN x -> "str"
      [] "int" \in DOMAIN x -> "int"
      [] "none" \in DOMAIN x -> "none"
      [] "list" \in DOMAIN x -> "list"
      [] "missing" \in DOMAIN x -> "missing"
      [] "raise" \in DOMAIN x -> "raise"
      [] OTHER -> "dict"

\* 'k' in d
Has(d, k) == TypeOf(d[k]) # "missing"

\* what an exception leaves instead of a return value
Raise(e) == [raise |-> e]

\* repr(x): how Python renders a value inside str() of a list or a dict
RECURSIVE Repr(_), ReprItems(_, _), ReprFields(_, _, _)
Repr(x) ==
    CASE TypeOf(x) = "str" -> "'" \o x.str \o "'"
      [] TypeOf(x) = "list" -> "[" \o ReprItems(x.list, 1) \o "]"
      [] TypeOf(x) = "dict" -> "{" \o ReprFields(x, 1, TRUE) \o "}"
      [] TypeOf(x) = "int" -> x.int
      [] OTHER -> "None"

ReprItems(items, i) ==
    IF i > Len(items) THEN ""
    ELSE (IF i > 1 THEN ", " ELSE "") \o Repr(items[i]) \o ReprItems(items, i + 1)

ReprFields(d, i, first) ==
    IF i > Len(Keys) THEN ""
    ELSE IF ~Has(d, Keys[i]) THEN ReprFields(d, i + 1, first)
    ELSE (IF first THEN "" ELSE ", ") \o "'" \o Keys[i] \o "': " \o Repr(d[Keys[i]])
            \o ReprFields(d, i + 1, FALSE)

\* str(x)
PyStr(x) == IF TypeOf(x) = "str" THEN x.str ELSE Repr(x)

\* content.startswith("[") and content.endswith("]")
Bracketed(s) ==
    /\ Len(s) >= 1
    /\ SubSeq(s, 1, 1) = "["
    /\ SubSeq(s, Len(s), Len(s)) = "]"

\* ast.literal_eval reads a string literal in either quoting
RECURSIVE Requote(_, _, _)
Requote(s, from, to) ==
    IF s = "" THEN ""
    ELSE (IF SubSeq(s, 1, 1) = from THEN to ELSE SubSeq(s, 1, 1))
            \o Requote(SubSeq(s, 2, Len(s)), from, to)

\* values of the field 'text': a string, a number, a nested object with or
\* without 'value'
TextValues ==
    {Missing, Str("t"), Num("5"),
     Dict(Missing, Str("hello"), Missing, Missing),
     Dict(Missing, Num("5"), Missing, Missing),
     Dict(Missing, Missing, Missing, Missing)}

ValueValues == {Missing, Str("v"), Num("5")}

ContentValues == {Missing, Str("c")}

MessageValues == {Missing, Str("m")}

\* the mappings handed to clean_content, and found as parts of a list
Mappings ==
    {Dict(a, b, c, d) : a \in TextValues, b \in ValueValues,
                        c \in ContentValues, d \in MessageValues}

\* what a list may hold: message parts, bare strings, numbers, None, lists
Items == Mappings \cup {Str("s"), Num("5"), None, List(<<Str("s")>>)}

\* the parts of the longer lists
Parts ==
    {Dict(Dict(Missing, Str("hello"), Missing, Missing), Missing, Missing, Missing),
     Dict(Missing, Str("v"), Str("c"), Missing),
     Dict(Missing, Num("5"), Missing, Missing),
     Dict(Missing, Missing, Missing, Str("m")),
     Str("s")}

\* the lists: empty, of one item, and of up to MaxLen parts
Lists ==
    {List(<<>>)} \cup {List(<<i>>) : i \in Items}
        \cup UNION {{List(q) : q \in [1..n -> Parts]} : n \in 2..MaxLen}

\* str(l) of every list
Encoding == [l \in Lists |-> Repr(l)]

\* the same literal written with double quotes
DoubleQuoted == [l \in Lists |-> Requote(Encoding[l], "'", "\"")]

\* strings that are not list literals, bracketed or not
PlainTexts == {"plain answer", "", "[unclosed", "see [1]"}

Malformed == {"[see note]", "[", "[{'text': ]", "['s'] and ['s']"}

\* the arguments of clean_content
Inputs ==
    {None, Num("5")} \cup Mappings \cup Lists
        \cup {Str(s) : s \in PlainTexts \cup Malformed}
        \cup {Str(Encoding[l]) : l \in Lists}
        \cup {Str(DoubleQuoted[l]) : l \in Lists}

(***************************************************************************)
(* clean_content itself.                                                   *)
(***************************************************************************)
\* ast.literal_eval(content): the list the string spells, or an exception
Spelled(canonical) == {l \in Lists : Encoding[l] = canonical}

literal_eval(s) ==
    LET spelled == Spelled(Requote(s, "\"", "'"))
    IN  IF spelled # {} THEN CHOOSE l \in spelled : TRUE ELSE Raise("ValueError")

\* x[:100] is defined
Sliceable(x) == TypeOf(x) \in {"str", "list"}

\* one turn of the loop over the list: the value appended to cleaned_parts,
\* nothing, or the TypeError of slicing a nested value for the debug print
ItemStepValueFirst(item) ==
    IF TypeOf(item) = "dict"
    THEN IF Has(item, "value") THEN [act |-> "append", part |-> item.value]
         ELSE IF Has(item, "text") /\ TypeOf(item.text) = "dict" /\ Has(item.text, "value")
         THEN IF Sliceable(item.text.value)
              THEN [act |-> "append", part |-> item.text.value]
              ELSE [act |-> "raise", part |-> None]
         ELSE IF Has(item, "content") THEN [act |-> "append", part |-> item.content]
         ELSE IF Has(item, "text") /\ TypeOf(item.text) = "str"
              THEN [act |-> "append", part |-> item.text]
         ELSE [act |-> "skip", part |-> None]
    ELSE IF TypeOf(item) = "str" THEN [act |-> "append", part |-> item]
    ELSE [act |-> "skip", part |-> None]

ItemStep(item) ==
    IF TypeOf(item) = "dict"
    THEN IF Has(item, "text") /\ TypeOf(item.text) = "dict" /\ Has(item.text, "value")
         THEN IF Sliceable(item.text.value)
              THEN [act |-> "append", part |-> item.text.value]
              ELSE [act |-> "raise", part |-> None]
         ELSE IF Has(item, "value") THEN [act |-> "append", part |-> item.value]
         ELSE IF Has(item, "content") THEN [act |-> "append", part |-> item.content]
         ELSE IF Has(item, "text") /\ TypeOf(item.text) = "str"
              THEN [act |-> "append", part |-> item.text]
         ELSE [act |-> "skip", part |-> None]
    ELSE IF TypeOf(item) = "str" THEN [act |-> "append", part |-> item]
    ELSE [act |-> "skip", part |-> None]

\* for i, item in enumerate(content): cleaned_parts, or the exception
RECURSIVE CleanedParts(_, _, _)
CleanedParts(items, i, cleaned_parts) ==
    IF i > Len(items) THEN List(cleaned_parts)
    ELSE LET step == ItemStep(items[i])
         IN  CASE step.act = "raise" -> Raise("TypeError")
               [] step.act = "append" ->
                     CleanedParts(items, i + 1, Append(cleaned_parts, step.part))
               [] OTHER -> CleanedParts(items, i + 1, cleaned_parts)

\* '\n\n'.join(parts): a TypeError unless every part is a str
RECURSIVE JoinText(_, _)
JoinText(parts, i) ==
    IF i > Len(parts) THEN ""
    ELSE (IF i > 1 THEN "\n\n" ELSE "") \o parts[i].str \o JoinText(parts, i + 1)

Join(parts) ==
    IF \E i \in 1..Len(parts) : TypeOf(parts[i]) # "str"
    THEN Raise("TypeError")
    ELSE Str(JoinText(parts, 1))

\* the branch: elif isinstance(content, list)
CleanList(c) ==
    LET parts == CleanedParts(c.list, 1, <<>>)
    IN  IF TypeOf(parts) = "raise" THEN parts
        ELSE IF Len(parts.list) > 0 THEN Join(parts.list)
        ELSE Str(PyStr(c))

\* the branch: elif isinstance(content, dict), falling through to str(content)
CleanDict(c) ==
    IF Has(c, "value") THEN c.value
    ELSE IF Has(c, "text")
         THEN IF TypeOf(c.text) = "dict" /\ Has(c.text, "value") THEN c.text.value
              ELSE IF TypeOf(c.text) = "str" THEN c.text
              ELSE Str(PyStr(c))
    ELSE IF Has(c, "content") THEN c.content
    ELSE IF Has(c, "message") THEN c.message
    ELSE Str(PyStr(c))

\* clean_content after the string-encoded list has been dealt with
CleanValue(c) ==
    CASE TypeOf(c) = "str" -> c
      [] TypeOf(c) = "list" -> CleanList(c)
      [] TypeOf(c) = "dict" -> CleanDict(c)
      [] OTHER -> Str(PyStr(c))

clean_content_EmptyOnParseError(c) ==
    IF TypeOf(c) = "str" /\ Bracketed(c.str)
    THEN LET decoded == literal_eval(c.str)
         IN  IF TypeOf(decoded) = "raise" THEN CleanValue(List(<<>>))
             ELSE CleanValue(decoded)
    ELSE CleanValue(c)

clean_content(c) ==
    IF TypeOf(c) = "str" /\ Bracketed(c.str)
    THEN LET decoded == literal_eval(c.str)
         IN  IF TypeOf(decoded) = "raise" THEN c ELSE CleanValue(decoded)
    ELSE CleanValue(c)

\* research_content = clean_content(research_content)
CleanContent ==
    /\ op = "clean_content" /\ pc = "start"
    /\ cleaned' = clean_content(content)
    /\ pc' = IF TypeOf(cleaned') = "raise" THEN "raised" ELSE "done"
    /\ UNCHANGED <<op, faults, user_query, progress_callback, calls, content, appVars,
                   stage,
                   workflow_results, response, response_content, run,
                   provisionAttempts, remoteVars>>

NormInit ==
    /\ Setup({"clean_content"}, {Absent}, Inputs)
    /\ HistoryIdle /\ RagIdle /\ StoreIdle

NormNext == CleanContent

NormSpec == NormInit /\ [][NormNext]_vars

(***************************************************************************)
(* execute_healthcare_workflow and clear_history of the Gradio interface   *)
(* (app.py).  The coordinator's call is taken by its outcome: it raises,   *)
(* or it returns stage contents, which are strings.                        *)
(***************************************************************************)
\* contents the stages may return: text, and text that spells a list
HistoryContents ==
    {Str("plain answer"), Str(""), Str("[{'text': {'value': 'hello'}}]"),
     Str("[{'value': 5}]")}

\* an entry of self.workflow_history
HistoryEntry(q, st) == [query |-> q, status |-> st]

\* the three calls of clean_content and the formatting that follows them
FormattingRaises(research, analysis, synthesis) ==
    \E c \in {research, analysis, synthesis} : TypeOf(clean_content(c)) = "raise"

\* execute_healthcare_workflow(question)
ExecuteHealthcareWorkflow ==
    /\ op = "execute_healthcare_workflow" /\ pc = "start"
    /\ pc' = "done"
    /\ IF ~env_valid
       THEN /\ response' = "env_message"
            /\ UNCHANGED workflow_history
       ELSE \/ /\ faults
               /\ workflow_history' =
                     Append(workflow_history, HistoryEntry(user_query, "error"))
               /\ response' = "error_message"
            \/ \E research, analysis, synthesis \in HistoryContents :
                  LET stored == Append(workflow_history,
                                       HistoryEntry(user_query, "completed"))
                  IN  IF FormattingRaises(research, analysis, synthesis)
                      THEN /\ workflow_history' =
                                 Append(stored, HistoryEntry(user_query, "error"))
                           /\ response' = "error_message"
                      ELSE /\ workflow_history' = stored
                           /\ response' = "workflow_display"
    /\ UNCHANGED <<op, faults, user_query, progress_callback, calls, content, cleaned,
                   env_valid, failing, search_results, rag_result, documents,
                   embeddings, vector_size, collection, collection_before, stage,
                   workflow_results, response_content, run, provisionAttempts,
                   remoteVars>>

\* clear_history(): self.workflow_history.clear()
ClearHistory ==
    /\ op = "execute_healthcare_workflow"
    /\ workflow_history' = <<>>
    /\ UNCHANGED <<op, faults, user_query, progress_callback, calls, content, cleaned,
                   env_valid, failing, search_results, rag_result, documents,
                   embeddings, vector_size, collection, collection_before, pc, stage,
                   workflow_results, response, response_content, run,
                   provisionAttempts, remoteVars>>

HistoryInit ==
    /\ Setup({"execute_healthcare_workflow"}, {Absent}, {Absent})
    /\ env_valid \in BOOLEAN
    /\ workflow_history = <<>>
    /\ RagIdle /\ StoreIdle

\* the user submits, clears the history, and submits again
HistoryNext == ExecuteHealthcareWorkflow \/ ClearHistory \/ NewCall

HistorySpec == HistoryInit /\ [][HistoryNext]_vars

(***************************************************************************)
(* RAGEngine.query (mvp_rag/core/rag_engine.py).  Which of its steps fail  *)
(* and how many documents the search finds are given with the call.        *)
(***************************************************************************)
\* llm_client.embed, vector_store.search, llm_client.generate
Steps == {"embed", "search", "generate"}

\* the except clause of _generate_response: the error becomes the answer
_generate_response_Raises(question, context) ==
    IF "generate" \in failing
    THEN [raised |-> TRUE, text |-> "LLM request failed"]
    ELSE [raised |-> FALSE, text |-> "answer"]
_generate_response(question, context) ==
    IF "generate" \in failing
    THEN [raised |-> FALSE,
          text |-> "I apologize, but I encountered an error generating a response"]
    ELSE [raised |-> FALSE, text |-> "answer"]

\* _prepare_context(search_results)
_prepare_context(found) ==
    IF found = 0
    THEN [context_summary |-> "No relevant documents found for this query.",
          retrieved_documents |-> 0]
    ELSE [context_summary |-> "Found relevant document(s) for your question.",
          retrieved_documents |-> found]

\* _collect_metrics: the timings measured, the documents counted
_collect_metrics(found) ==
    [timings |-> "measured", documents_retrieved |-> found,
     error |-> Absent, status |-> Absent]

\* _collect_error_metrics(total_time, str(e))
_collect_error_metrics(error_message) ==
    [timings |-> "zero", documents_retrieved |-> 0,
     error |-> error_message, status |-> "failed"]

\* the dictionary returned by the except clause of query
ErrorResult(e) ==
    [response |-> "I apologize, but I encountered an error processing your question",
     context |-> [context_summary |-> "Error occurred during processing",
                  retrieved_documents |-> 0],
     metrics |-> _collect_error_metrics(e)]

\* RAGEngine.query(user_question)
Query ==
    /\ op = "query" /\ pc = "start"
    /\ pc' = "done"
    /\ rag_result' =
          IF "embed" \in failing THEN ErrorResult("Embedding generation failed")
          ELSE IF "search" \in failing THEN ErrorResult("Search operation failed")
          ELSE LET context == _prepare_context(search_results)
                   generated == _generate_response(user_query, context)
               IN  IF generated.raised THEN ErrorResult(generated.text)
                   ELSE [response |-> generated.text,
                         context |-> context,
                         metrics |-> _collect_metrics(search_results)]
    /\ UNCHANGED <<op, faults, user_query, progress_callback, calls, content, cleaned,
                   env_valid, workflow_history, failing, search_results, documents,
                   embeddings, vector_size, collection, collection_before, stage,
                   workflow_results, response, response_content, run,
                   provisionAttempts, remoteVars>>

RagInit ==
    /\ Setup({"query"}, {Absent}, {Absent})
    /\ failing \in SUBSET Steps
    /\ search_results \in 0..MaxDocs
    /\ rag_result = Absent
    /\ HistoryIdle /\ StoreIdle

RagNext == Query

RagSpec == RagInit /\ [][RagNext]_vars

(***************************************************************************)
(* QdrantVectorStore.add_documents and _ensure_collection                  *)
(* (mvp_rag/core/vector_store.py), one action per call of the Qdrant       *)
(* client.  A call that raises has had no effect on the collection.        *)
(***************************************************************************)
\* lengths of the embedding vectors handed over (0: an empty embedding)
VectorSizes == {0, 2, 3}

\* the embeddings argument: the length of each vector
EmbeddingLists == UNION {[1..n -> VectorSizes] : n \in 0..MaxDocs}

\* the collection as another run may have left it
Collections ==
    {NoCollection}
        \cup {[exists |-> TRUE, size |-> s, points |-> p] :
                 s \in VectorSizes \ {0}, p \in 0..1}

\* what is unchanged by every step of add_documents
storeFrame ==
    <<op, faults, user_query, progress_callback, calls, content, cleaned, env_valid,
      workflow_history, failing, search_results, rag_result, documents, embeddings,
      collection_before, stage, workflow_results, response_content, run,
      provisionAttempts, remoteVars>>

InStore == op = "add_documents"

\* an exception leaves add_documents
StoreRaise(e) ==
    /\ pc' = "raised"
    /\ response' = e

\* a call of the Qdrant client raises
ClientError(e) == faults /\ StoreRaise(e)

\* add_documents: the validation of its arguments, up to the call of
\* _ensure_collection
AddDocumentsUnchecked ==
    /\ InStore /\ pc = "start"
    /\ IF documents = 0 \/ Len(embeddings) = 0 THEN StoreRaise("ValueError")
       ELSE /\ pc' = "get_collections"
            /\ UNCHANGED response
    /\ vector_size' = IF pc' = "raised" THEN vector_size ELSE embeddings[1]
    /\ UNCHANGED <<storeFrame, collection>>

AddDocuments ==
    /\ InStore /\ pc = "start"
    /\ IF documents # Len(embeddings) THEN StoreRaise("ValueError")
       ELSE IF documents = 0 \/ Len(embeddings) = 0 THEN StoreRaise("ValueError")
       ELSE IF embeddings[1] = 0 THEN StoreRaise("ValueError")
       ELSE /\ pc' = "get_collections"
            /\ UNCHANGED response
    /\ vector_size' = IF pc' = "raised" THEN vector_size ELSE embeddings[1]
    /\ UNCHANGED <<storeFrame, collection>>

\* _ensure_collection: self.client.get_collections()
GetCollections ==
    /\ InStore /\ pc = "get_collections"
    /\ \/ /\ pc' = IF collection.exists THEN "get_collection" ELSE "create_collection"
          /\ UNCHANGED response
       \/ ClientError("Collection management failed")
    /\ UNCHANGED <<storeFrame, vector_size, collection>>

\* _ensure_collection: create_collection when the collection does not exist
CreateCollection ==
    /\ InStore /\ pc = "create_collection"
    /\ \/ /\ collection' = [exists |-> TRUE, size |-> vector_size, points |-> 0]
          /\ pc' = "upsert"
          /\ UNCHANGED response
       \/ /\ ClientError("Collection management failed")
          /\ UNCHANGED collection
    /\ UNCHANGED <<storeFrame, vector_size>>

\* _ensure_collection: get_collection and the comparison of the vector sizes
GetCollection ==
    /\ InStore /\ pc = "get_collection"
    /\ \/ /\ pc' = IF collection.size # vector_size THEN "delete_collection" ELSE "upsert"
          /\ UNCHANGED response
       \/ ClientError("Collection management failed")
    /\ UNCHANGED <<storeFrame, vector_size, collection>>

\* _ensure_collection: delete_collection on a vector size mismatch
DeleteCollection ==
    /\ InStore /\ pc = "delete_collection"
    /\ \/ /\ collection' = NoCollection
          /\ pc' = "recreate_collection"
          /\ UNCHANGED response
       \/ /\ ClientError("Collection management failed")
          /\ UNCHANGED collection
    /\ UNCHANGED <<storeFrame, vector_size>>

\* _ensure_collection: create_collection after the deletion
RecreateCollection ==
    /\ InStore /\ pc = "recreate_collection"
    /\ \/ /\ collection' = [exists |-> TRUE, size |-> vector_size, points |-> 0]
          /\ pc' = "upsert"
          /\ UNCHANGED response
       \/ /\ ClientError("Collection management failed")
          /\ UNCHANGED collection
    /\ UNCHANGED <<storeFrame, vector_size>>

\* add_documents: self.client.upsert(points); Qdrant rejects a point whose
\* vector has not the collection's size
Upsert ==
    /\ InStore /\ pc = "upsert"
    /\ \/ /\ \A i \in 1..Len(embeddings) : embeddings[i] = collection.size
          /\ collection' = [collection EXCEPT !.points = @ + documents]
          /\ pc' = "done"
          /\ response' = "doc_ids"
       \/ /\ \E i \in 1..Len(embeddings) : embeddings[i] # collection.size
          /\ StoreRaise("Document insertion failed")
          /\ UNCHANGED collection
       \/ /\ ClientError("Document insertion failed")
          /\ UNCHANGED collection
    /\ UNCHANGED <<storeFrame, vector_size>>

StoreInit ==
    /\ Setup({"add_documents"}, {Absent}, {Absent})
    /\ documents \in 0..MaxDocs
    /\ embeddings \in EmbeddingLists
    /\ vector_size = 0
    /\ collection \in Collections
    /\ collection_before = collection
    /\ HistoryIdle /\ RagIdle

StoreNext ==
    \/ AddDocuments
    \/ GetCollections
    \/ CreateCollection
    \/ GetCollection
    \/ DeleteCollection
    \/ RecreateCollection
    \/ Upsert

StoreSpec == StoreInit /\ [][StoreNext]_vars

(***************************************************************************)
(* Properties of execute_multi_agent_workflow.                             *)
(***************************************************************************)
Returned == InWorkflow /\ pc = "done"

StatusOf(s) == workflow_results[s].status

AllCompleted == \A s \in Stages : StatusOf(s) = "completed"

\* C1: execute_multi_agent_workflow never lets a remote failure escape: no
\* stage leaves the function by an exception, and what it returns holds a
\* research, an analysis and a synthesis entry and the summary, whatever
\* remote calls failed.
C1_NeverRaisesCompleteResult ==
    InWorkflow =>
        /\ pc # "raised"
        /\ pc = "done" => DOMAIN workflow_results = Stages \cup {"summary"}

\* C1 witness: a returned result in which every stage failed
C1_Witness ==
    /\ Returned
    /\ \A s \in Stages : StatusOf(s) = "failed" /\ workflow_results[s].error # Absent

\* C2: in the returned summary, workflow_status is "completed" exactly when
\* the research, analysis and synthesis entries all have status "completed".
C2_CompletedIffAllCompleted ==
    Returned =>
        (workflow_results["summary"].workflow_status = "completed" <=> AllCompleted)

\* C2 witness: a returned workflow whose three stages completed
C2_Witness ==
    /\ Returned
    /\ AllCompleted
    /\ workflow_results["summary"].workflow_status = "completed"

ResearchFailed ==
    /\ InWorkflow
    /\ "research" \in DOMAIN workflow_results
    /\ StatusOf("research") = "failed"
    /\ stage # "research"

C5_FanInCompleteness ==
    (Returned /\ "research" \in DOMAIN workflow_results
              /\ StatusOf("research") = "completed") =>
        \A s \in {"analysis", "synthesis"} :
            /\ s \in DOMAIN workflow_results
            /\ StatusOf(s) \in {"completed", "failed"}

\* C5 witness: research succeeded, analysis failed, synthesis succeeded
C5_Witness ==
    /\ Returned
    /\ StatusOf("research") = "completed"
    /\ StatusOf("analysis") = "failed"
    /\ StatusOf("synthesis") = "completed"

\* the synthesis stage ran to its end: its run completed, a reply was
\* recorded and its thread was deleted
SynthesisSucceeded ==
    /\ run["synthesis"] = "completed"
    /\ thread["synthesis"] = "deleted"

\* C6: analysis and synthesis fail independently: whatever step of analysis
\* failed, the synthesis stage is still started and reported with the status
\* its own steps earned, and no step of the synthesis stage changes the
\* analysis entry already recorded.
C6_IndependentFailure ==
    /\ [](Returned =>
            /\ provisionAttempts["synthesis"] = 1
            /\ StatusOf("synthesis") = "completed" <=> SynthesisSucceeded)
    /\ [][(InWorkflow /\ stage = "synthesis") =>
            workflow_results'["analysis"] = workflow_results["analysis"]]_vars

\* C6 witness: analysis failed after its prompt was sent, synthesis completed
C6_Witness ==
    /\ Returned
    /\ StatusOf("analysis") = "failed"
    /\ prompt["analysis"] # NoPrompt
    /\ StatusOf("synthesis") = "completed"

\* C6 witness, the other way round: analysis completed, synthesis failed
C6_WitnessSynthesisFailed ==
    /\ Returned
    /\ StatusOf("analysis") = "completed"
    /\ StatusOf("synthesis") = "failed"

C8_BothSubmittedBeforeAwait ==
    (InWorkflow /\ stage = "analysis" /\ pc = "poll") => prompt["synthesis"] # NoPrompt

\* C9 as claimed: when an entry point returns, every thread it opened has
\* been deleted, and no thread is deleted more than once.
C9_ThreadsDeletedOnReturn ==
    /\ \A o \in Owners : deletes[o] <= 1
    /\ pc = "done" => \A o \in Owners : thread[o] # "open"

\* C10: the run poller terminates: with remote runs that reach a terminal
\* status and remote calls that return, every call of an entry point stops
\* polling and returns.
C10_PollerTerminates == <>(pc = "done")

\* C10 witness: a workflow returned whose runs were polled to completion
\* through a tool round
C10_Witness ==
    /\ Returned
    /\ AllCompleted
    /\ toolRounds = MaxToolRounds

\* C10 witness for process_healthcare_query: returned after polling
C10_WitnessConnected ==
    /\ InConnected /\ pc = "done"
    /\ response = "connected text"
    /\ toolRounds = MaxToolRounds

\* the stage s has ended: its entry is recorded and control has moved on
StageEnded(s) ==
    /\ InWorkflow
    /\ s \in DOMAIN workflow_results
    /\ stage # s

\* the entry of stage s carries the reason e as the service reported it
CarriesReason(s, e) ==
    workflow_results[s].error \in {e, AgentFailedMessage(s, e)}

\* C11 as claimed: when the run of a stage is seen in status "failed", as
\* the first status returned by the submission or on a later poll, the
\* stage entry has status "failed" and carries the reason the service
\* reported.
C11_FailureReasonPropagated ==
    \A s \in Stages :
        (StageEnded(s) /\ run[s] = "failed") =>
            /\ StatusOf(s) = "failed"
            /\ CarriesReason(s, last_error[s])

\* C12 as claimed: job status is monotonic: once the client has seen a run
\* in a terminal status the run stays in it, and the status the stage
\* records for the run is that first terminal status.
C12_RecordedStatusIsTerminalStatus ==
    \A s \in Stages :
        (StageEnded(s) /\ run[s] \in TerminalStatuses) =>
            /\ job[s] = run[s]
            /\ StatusOf(s) = run[s]

\* C12 as amended: a run that is terminal stays so, and a stage entry that
\* carries a run status (one written from the run, not by the except
\* clause) carries the first terminal status seen for that run; an entry
\* written by the except clause is "failed" whatever the run's status.
C12_RunStatusRecordedWhenNoException ==
    \A s \in Stages \cap DOMAIN workflow_results :
        IF workflow_results[s].error = Absent
        THEN /\ run[s] \in TerminalStatuses
             /\ job[s] = run[s]
             /\ StatusOf(s) = run[s]
        ELSE StatusOf(s) = "failed"

\* C12 witness: the research run was polled through a tool round to
\* "completed" and the research entry was recorded from it
C12_Witness ==
    /\ StageEnded("research")
    /\ workflow_results["research"].error = Absent
    /\ StatusOf("research") = "completed"
    /\ toolRounds = MaxToolRounds
    /\ job["analysis"] = "none"

(***************************************************************************)
(* Provisioning of the remote agents.                                      *)
(***************************************************************************)
\* the stage entry of this call names the agent it ran on
Resolved(s) ==
    /\ InWorkflow
    /\ s \in DOMAIN workflow_results
    /\ workflow_results[s].agent_id # Absent

C13_WitnessConnected ==
    /\ InConnected /\ calls = 2 /\ pc = "done"
    /\ response = "connected text"

(***************************************************************************)
(* Metrics and progress reporting.                                         *)
(***************************************************************************)
\* C14 as claimed: every workflow run, successful or failed, is measured and
\* counted: what the run leaves behind carries its execution time and the
\* updated metrics (total_queries, average_latency).
C14_MetricsMaintained ==
    Returned =>
        {"execution_time", "total_queries", "average_latency"}
            \subseteq DOMAIN workflow_results["summary"]

\* C15 as claimed: the workflow accepts the optional progress callback: a
\* call that supplies it runs like one that omits it and never ends in an
\* exception raised to the caller.
C15_CallbackAccepted ==
    (InWorkflow /\ progress_callback # Absent) => pc # "raised"

(***************************************************************************)
(* Properties of clean_content.                                            *)
(***************************************************************************)
Cleaning == op = "clean_content" /\ pc # "start"

\* C16 as claimed: clean_content never raises, whatever it is given
C16_NormalizerTotal ==
    Cleaning => /\ pc # "raised"
                /\ TypeOf(cleaned) # "raise"

\* the strings that spell a list, in either quoting
Spellings(l) == {Encoding[l], DoubleQuoted[l]}

Decodable(s) == \E l \in Lists : s \in Spellings(l)

C17_WitnessPlain ==
    /\ Cleaning
    /\ content = Str("plain answer")
    /\ cleaned = Str("plain answer")

\* the field of a part that the stated preference order selects: nested
\* text.value, then value, then content, then text when it is a string; a
\* bare string is its own text; Missing when the part yields nothing
Preferred(item) ==
    IF TypeOf(item) = "dict"
    THEN CASE TypeOf(item.text) = "dict" /\ Has(item.text, "value") -> item.text.value
           [] Has(item, "value") -> item.value
           [] Has(item, "content") -> item.content
           [] TypeOf(item.text) = "str" -> item.text
           [] OTHER -> Missing
    ELSE IF TypeOf(item) = "str" THEN item
    ELSE Missing

\* the list an argument is, or spells
ListOf(c) ==
    IF TypeOf(c) = "list" THEN c ELSE CHOOSE l \in Lists : c.str \in Spellings(l)

IsListInput(c) ==
    \/ TypeOf(c) = "list"
    \/ TypeOf(c) = "str" /\ Decodable(c.str)

\* what the parts of a list yield, in order
Yields(l) ==
    LET Yielding(x) == x # Missing
    IN  SelectSeq([i \in 1..Len(l.list) |-> Preferred(l.list[i])], Yielding)

AllText(parts) == \A i \in 1..Len(parts) : TypeOf(parts[i]) = "str"

C18_WitnessAllFields ==
    /\ Cleaning
    /\ content = List(<<Dict(Dict(Missing, Str("hello"), Missing, Missing),
                             Str("v"), Str("c"), Str("m"))>>)
    /\ cleaned = Str("hello")

\* C19 as claimed: a mapping is cleaned like the one-element list holding it,
\* whenever a field of the preference order yields text.
C19_MappingLikeListPart ==
    (Cleaning /\ TypeOf(content) = "dict" /\ TypeOf(Preferred(content)) = "str") =>
        /\ pc = "done"
        /\ cleaned = Preferred(content)
        /\ cleaned = clean_content(List(<<content>>))

(***************************************************************************)
(* Independence of the analysis and synthesis submissions.                 *)
(***************************************************************************)
\* C20 as claimed: the prompt submitted to synthesis is built from the query
\* and the research text alone: it embeds nothing of the analysis stage, so
\* it does not depend on that stage's outcome.
C20_SynthesisPromptIndependent ==
    (InWorkflow /\ prompt["synthesis"] # NoPrompt) =>
        /\ prompt["synthesis"].query = user_query
        /\ prompt["synthesis"].research =
              ContentOr("research", "No research data available")
        /\ prompt["synthesis"].analysis = Absent

(***************************************************************************)
(* Polling, stage entries and the summary.                                 *)
(***************************************************************************)
\* the handler of process_healthcare_query has left its polling loop and has
\* started to extract the reply or to report the failure
ConnectedOutcome ==
    /\ InConnected
    /\ \/ pc = "c_delete_thread"
       \/ response \in {"Connected agent workflow failed",
                        "No response received from the connected agents."}

\* C21 as claimed: reply extraction and failure reporting start only from a
\* terminal status: a stage entry built from the reply, and the outcome of
\* process_healthcare_query, are produced only once the fetched run status is
\* completed or failed.
C21_OutcomeOnlyFromTerminal ==
    /\ InWorkflow =>
          \A s \in Stages \cap DOMAIN workflow_results :
              workflow_results[s].error = Absent => run[s] \in TerminalStatuses
    /\ ConnectedOutcome => run["connected"] \in TerminalStatuses

\* C22 as claimed: a stage entry, once recorded, is never replaced or changed
\* by a later step of the same query.
C22_StageEntryImmutable ==
    [][\A s \in Stages \cap DOMAIN workflow_results :
          /\ s \in DOMAIN workflow_results'
          /\ workflow_results'[s] = workflow_results[s]]_vars

\* C23: every returned summary counts three stages, and as successful exactly
\* the stage entries whose status is 'completed'.
C23_SummaryCounts ==
    Returned =>
        LET summary == workflow_results["summary"]
        IN  /\ summary.total_agents = 3
            /\ summary.successful_agents =
                  Cardinality({s \in Stages : StatusOf(s) = "completed"})
            /\ summary.successful_agents \in 0..3

\* C23 witness: research and synthesis completed, analysis failed: 2 of 3
C23_Witness ==
    /\ Returned
    /\ StatusOf("research") = "completed"
    /\ StatusOf("analysis") = "failed"
    /\ StatusOf("synthesis") = "completed"
    /\ workflow_results["summary"].successful_agents = 2
    /\ workflow_results["summary"].workflow_status = "partial"

(***************************************************************************)
(* Output of clean_content for a list.                                     *)
(***************************************************************************)
\* the fragments of a list: what its parts yield that is text, in list order
Fragments(l) ==
    LET IsText(x) == TypeOf(x) = "str"
    IN  SelectSeq(Yields(l), IsText)

\* C24 as claimed: for every list the output is its text fragments in list
\* order joined by a blank line, parts yielding no text being skipped, and
\* the string rendering of the whole list when no part yields text.
C24_ListOutput ==
    (Cleaning /\ TypeOf(content) = "list") =>
        /\ pc = "done"
        /\ cleaned = IF Fragments(content) = <<>>
                     THEN Str(PyStr(content))
                     ELSE Str(JoinText(Fragments(content), 1))

(***************************************************************************)
(* Thread cleanup.                                                         *)
(***************************************************************************)
\* C25 as claimed: deleting a stage's thread, whether it succeeds or fails,
\* leaves a stage recorded 'completed' as 'completed', with its content.
C25_CleanupKeepsOutcome ==
    [][(InWorkflow /\ pc = "delete_thread" /\ StatusOf(stage) = "completed") =>
          /\ workflow_results'[stage].status = "completed"
          /\ workflow_results'[stage].content = workflow_results[stage].content]_vars

(***************************************************************************)
(* The workflow history of the Gradio interface.                           *)
(***************************************************************************)
\* C26 as claimed: a call of execute_healthcare_workflow appends exactly one
\* entry, 'completed' or 'error', for a query that passes the environment
\* validation and none for one that fails it, keeping the earlier entries;
\* clear_history leaves the history empty.
C26_OneEntryPerQuery ==
    [][/\ (pc = "start" /\ pc' = "done") =>
            IF env_valid
            THEN \E st \in {"completed", "error"} :
                    workflow_history' =
                        Append(workflow_history, HistoryEntry(user_query, st))
            ELSE workflow_history' = workflow_history
       /\ (pc' = pc /\ workflow_history' # workflow_history) =>
            workflow_history' = <<>>]_vars

(***************************************************************************)
(* RAGEngine.query.                                                        *)
(***************************************************************************)
Answered == op = "query" /\ pc = "done"

ErrorMetrics(m) == m.status = "failed" /\ m.error # Absent

\* C27 as claimed: a failure of any of the three steps gives the error
\* metrics, and ordinary metrics mean that all three steps succeeded.
C27_AnyFailureGivesErrorMetrics ==
    Answered => (failing # {} <=> ErrorMetrics(rag_result.metrics))

\* C27 as amended: query always returns; it returns the error metrics exactly
\* when the embedding or the search failed.  A failed generation is absorbed
\* by _generate_response: the result then carries the apology as its response
\* together with ordinary timing metrics, as for a successful query.
C27_ErrorMetricsIffEmbedOrSearchFails ==
    /\ op = "query" => pc # "raised"
    /\ Answered =>
          /\ ErrorMetrics(rag_result.metrics) <=> failing \cap {"embed", "search"} # {}
          /\ ~ErrorMetrics(rag_result.metrics) =>
                /\ rag_result.metrics.timings = "measured"
                /\ rag_result.metrics.documents_retrieved = search_results
                /\ rag_result.response = "answer" <=> "generate" \notin failing

\* C27 witness: only the generation failed, and the metrics are ordinary
C27_Witness ==
    /\ Answered
    /\ failing = {"generate"}
    /\ ~ErrorMetrics(rag_result.metrics)
    /\ rag_result.metrics.timings = "measured"
    /\ rag_result.response # "answer"

(***************************************************************************)
(* The Qdrant vector store.                                                *)
(***************************************************************************)
\* _ensure_collection has returned to add_documents
EnsureReturned == InStore /\ pc = "upsert"

\* _ensure_collection has raised
EnsureRaised ==
    InStore /\ pc = "raised" /\ response = "Collection management failed"

\* C28 as claimed: when _ensure_collection returns, the collection exists
\* with the vector size asked for; when it raises, the collection and its
\* points are as they were before the call.
C28_EnsureAllOrNothing ==
    /\ EnsureReturned => collection.exists /\ collection.size = vector_size
    /\ EnsureRaised => collection = collection_before

\* the arguments add_documents rejects
InvalidInput ==
    \/ documents # Len(embeddings)
    \/ documents = 0
    \/ embeddings = <<>>
    \/ embeddings[1] = 0

\* C29: invalid input is rejected with ValueError before any call of the
\* Qdrant client: add_documents goes from its entry straight to the raise,
\* never to a call that reads, creates, deletes or writes the collection,
\* and the collection is as it was.
C29_InvalidInputRejectedFirst ==
    (InStore /\ InvalidInput) =>
        /\ pc \in {"start", "raised"}
        /\ pc = "raised" => response = "ValueError"
        /\ collection = collection_before

\* C29 witness: documents and embeddings of different lengths were rejected,
\* and the stored points are untouched
C29_Witness ==
    /\ InStore /\ pc = "raised"
    /\ response = "ValueError"
    /\ documents # Len(embeddings)
    /\ collection.exists /\ collection.points = 1
    /\ collection = collection_before

\* C29 witness: an empty first embedding was rejected
C29_WitnessEmptyEmbedding ==
    /\ InStore /\ pc = "raised"
    /\ response = "ValueError"
    /\ documents = Len(embeddings) /\ documents > 0
    /\ embeddings[1] = 0

(***************************************************************************)
(* Empty queries of process_healthcare_query.                              *)
(***************************************************************************)
\* C30: for an empty or whitespace-only query process_healthcare_query goes
\* from its entry straight to the return of 'Please enter a healthcare
\* question.': no thread, no message and no run is created remotely.
C30_EmptyQueryTouchesNothing ==
    (InConnected /\ Strip(user_query) = "") =>
        /\ pc \in {"start", "done"}
        /\ pc = "done" => response = "Please enter a healthcare question."
        /\ thread["connected"] = "none"
        /\ prompt["connected"] = NoPrompt
        /\ job["connected"] = "none"
        /\ run["connected"] = "none"
        /\ agents["connected"] = 1

\* C30 witness: a whitespace-only query has been answered
C30_Witness ==
    /\ InConnected /\ pc = "done"
    /\ user_query = "  "
    /\ response = "Please enter a healthcare question."
    /\ thread["connected"] = "none"

====
